---- MODULE Spec2Model ----
(***************************************************************************)
(* Model of webhook.py: the TradingView webhook relay.  Concurrent         *)
(* deliveries of POST /webhook/tradingview run tradingview_webhook() on    *)
(* their own worker; they share the sqlite tables `alerts` and `meta`,     *)
(* the wall clock and the exchange.  Text is modelled as sequences of      *)
(* one-character strings so that parsing is computed, not assumed.         *)
(* A step of a request runs the handler from one access of shared state    *)
(* (a query, a commit, a clock reading, the exchange call) to the next;    *)
(* each sqlite statement with its commit is taken as atomic.               *)
(***************************************************************************)
EXTENDS Integers, Sequences, FiniteSets, TLC

(* ------------------------------ bounds --------------------------------- *)
\* number of webhook deliveries that arrive while others are in flight
MaxReq == 2
\* number of webhook deliveries handled one after another
MaxSerial == 3
\* number of half seconds the wall clock advances in one behaviour
MaxTicks == 2
\* the wall clock reading when the service starts (seconds since the epoch)
StartTime == 10
\* length of the longest text given to parse_alert_text on its own
MaxLen == 6

(* --------------------------- configuration ----------------------------- *)
\* webhook.py:19, the default of the environment variable
MAX_USD_PER_ORDER == 100
\* webhook.py:20, the default of the environment variable
MIN_SECONDS_BETWEEN_ORDERS == 1

Requests == 1 .. MaxSerial

(* ------------------------------ text ----------------------------------- *)
Whitespace == {" ", "\t", "\n"}
Digit == {"0", "1", "2", "3", "4", "5", "6", "7", "8", "9"}
UpperCase == <<"A","B","C","D","E","F","G","H","I","J","K","L","M",
               "N","O","P","Q","R","S","T","U","V","W","X","Y","Z">>
LowerCase == <<"a","b","c","d","e","f","g","h","i","j","k","l","m",
               "n","o","p","q","r","s","t","u","v","w","x","y","z">>

\* str.lower() of one character
LowerChar(c) ==
  IF \E i \in 1 .. 26 : UpperCase[i] = c
  THEN LowerCase[CHOOSE i \in 1 .. 26 : UpperCase[i] = c]
  ELSE c

\* str.lower()
Lower(s) == [i \in 1 .. Len(s) |-> LowerChar(s[i])]

\* str.strip()
Strip(s) ==
  LET keep == {i \in 1 .. Len(s) : s[i] \notin Whitespace}
  IN  IF keep = {} THEN <<>>
      ELSE LET lo == CHOOSE i \in keep : \A j \in keep : i <= j
               hi == CHOOSE i \in keep : \A j \in keep : j <= i
           IN  SubSeq(s, lo, hi)

\* position of the first occurrence of character c in s, 0 if there is none
Find(s, c) ==
  LET at == {i \in 1 .. Len(s) : s[i] = c}
  IN  IF at = {} THEN 0 ELSE CHOOSE i \in at : \A j \in at : i <= j

\* str.split(sep) for a one-character separator
RECURSIVE Split(_, _)
Split(s, sep) ==
  LET i == Find(s, sep)
  IN  IF i = 0 THEN <<s>>
      ELSE <<SubSeq(s, 1, i - 1)>> \o Split(SubSeq(s, i + 1, Len(s)), sep)

\* str.startswith(prefix)
StartsWith(s, prefix) ==
  /\ Len(prefix) <= Len(s)
  /\ SubSeq(s, 1, Len(prefix)) = prefix

(* --------------------------- parse_alert_text -------------------------- *)
\* the key and the value one segment assigns: split on the first ':'
\* mutant: the key is not lower-cased
SegKey_NoLower(p) == Strip(SubSeq(p, 1, Find(p, ":") - 1))

SegKey(p) == Lower(Strip(SubSeq(p, 1, Find(p, ":") - 1)))
SegVal(p) == Strip(SubSeq(p, Find(p, ":") + 1, Len(p)))

\* parts after the first n segments: a later assignment replaces an earlier
RECURSIVE PartsUpTo(_, _)
PartsUpTo(segs, n) ==
  IF n = 0 THEN <<>>
  ELSE LET before == PartsUpTo(segs, n - 1)
           p == segs[n]
       IN  IF Find(p, ":") = 0 THEN before
           ELSE [k \in DOMAIN before \cup {SegKey(p)} |->
                   IF k = SegKey(p) THEN SegVal(p) ELSE before[k]]

parse_alert_text(text) ==
  LET segs == Split(text, ";") IN PartsUpTo(segs, Len(segs))

\* dict.get(key, default)
Get(d, k, default) == IF k \in DOMAIN d THEN d[k] ELSE default

(* ------------------------------ numbers -------------------------------- *)
\* A Python float is modelled by its exact decimal value num/den (den > 0),
\* or by one of the special values below.  The inputs of the model have few
\* digits, so that no rounding of binary floating point is involved.
Fin(n, d) == [kind |-> "fin", num |-> n, den |-> d]
NaN == [kind |-> "nan", num |-> 0, den |-> 1]
PosInf == [kind |-> "inf", num |-> 1, den |-> 1]
NegInf == [kind |-> "inf", num |-> -1, den |-> 1]
\* float() raised ValueError
ValueError == [kind |-> "error", num |-> 0, den |-> 1]

DigitSeq == <<"0", "1", "2", "3", "4", "5", "6", "7", "8", "9">>
DigitVal(c) == (CHOOSE i \in 1 .. 10 : DigitSeq[i] = c) - 1
AllDigits(s) == \A i \in 1 .. Len(s) : s[i] \in Digit

RECURSIVE DigitsVal(_)
DigitsVal(s) ==
  IF Len(s) = 0 THEN 0
  ELSE 10 * DigitsVal(SubSeq(s, 1, Len(s) - 1)) + DigitVal(s[Len(s)])

RECURSIVE Pow10(_)
Pow10(n) == IF n = 0 THEN 1 ELSE 10 * Pow10(n - 1)

\* the characters after an optional sign
Unsigned(s) ==
  IF Len(s) > 0 /\ s[1] \in {"+", "-"} THEN SubSeq(s, 2, Len(s)) ELSE s
IsNegative(s) == Len(s) > 0 /\ s[1] = "-"

\* the decimal literal  digits [. digits] [e [sign] digits]  without sign
ParseDecimal(s) ==
  LET epos == Find(s, "e")
      mant == IF epos = 0 THEN s ELSE SubSeq(s, 1, epos - 1)
      expo == IF epos = 0 THEN <<>> ELSE SubSeq(s, epos + 1, Len(s))
      dot  == Find(mant, ".")
      ip   == IF dot = 0 THEN mant ELSE SubSeq(mant, 1, dot - 1)
      fp   == IF dot = 0 THEN <<>> ELSE SubSeq(mant, dot + 1, Len(mant))
      ed   == Unsigned(expo)
      ev   == DigitsVal(ed)
      n    == DigitsVal(ip \o fp)
      d    == Pow10(Len(fp))
  IN  IF \/ ~ AllDigits(ip) \/ ~ AllDigits(fp) \/ Len(ip) + Len(fp) = 0
         \/ (epos # 0 /\ (Len(ed) = 0 \/ ~ AllDigits(ed)))
      THEN ValueError
      ELSE IF IsNegative(expo) THEN Fin(n, d * Pow10(ev))
           ELSE Fin(n * Pow10(ev), d)

\* float(str): surrounding whitespace is ignored, then an optional sign and
\* a decimal literal or one of inf, infinity, nan in any case
Word_inf == <<"i", "n", "f">>
Word_infinity == <<"i", "n", "f", "i", "n", "i", "t", "y">>
Word_nan == <<"n", "a", "n">>

ParseFloat(str) ==
  LET s    == Lower(Strip(str))
      body == Unsigned(s)
      neg  == IsNegative(s)
      dec  == ParseDecimal(body)
  IN  IF body \in {Word_inf, Word_infinity} THEN (IF neg THEN NegInf ELSE PosInf)
      ELSE IF body = Word_nan THEN NaN
      ELSE IF dec.kind = "error" THEN ValueError
      ELSE IF neg THEN Fin(0 - dec.num, dec.den) ELSE dec

\* x < y, x <= y and x > y on floats: every comparison with nan is false
FloatLt(x, y) ==
  /\ x.kind # "nan" /\ y.kind # "nan"
  /\ IF x.kind = "inf" THEN x.num < 0 /\ ~ (y.kind = "inf" /\ y.num < 0)
     ELSE IF y.kind = "inf" THEN y.num > 0
     ELSE x.num * y.den < y.num * x.den
FloatEq(x, y) ==
  /\ x.kind # "nan" /\ y.kind # "nan"
  /\ IF x.kind = "inf" \/ y.kind = "inf" THEN x = y
     ELSE x.num * y.den = y.num * x.den
FloatLe(x, y) == FloatLt(x, y) \/ FloatEq(x, y)
FloatGt(x, y) == FloatLt(y, x)
\* x - y on finite floats
FloatSub(x, y) == Fin(x.num * y.den - y.num * x.den, x.den * y.den)
IsFinite(x) == x.kind = "fin"

\* str(int)
RECURSIVE IntStr(_)
IntStr(n) ==
  IF n < 10 THEN <<DigitSeq[n + 1]>>
  ELSE IntStr(n \div 10) \o <<DigitSeq[(n % 10) + 1]>>

\* str(float) of a clock reading, which is a whole number of half seconds
FloatStr(x) ==
  LET halves == (2 * x.num) \div x.den
  IN  IntStr(halves \div 2) \o <<".", IF halves % 2 = 0 THEN "0" ELSE "5">>

(* ------------------------------ inputs --------------------------------- *)
K_secret == <<"s", "e", "c", "r", "e", "t">>
K_tv_id  == <<"t", "v", "_", "i", "d">>
K_id     == <<"i", "d">>
K_symbol == <<"s", "y", "m", "b", "o", "l">>
K_action == <<"a", "c", "t", "i", "o", "n">>
K_amount == <<"a", "m", "o", "u", "n", "t">>

\* the request bodies a sender submits: "key:value" segments joined by ';'
Seg(k, v) == k \o <<":">> \o v
RECURSIVE Join(_)
Join(segs) ==
  IF Len(segs) = 0 THEN <<>>
  ELSE IF Len(segs) = 1 THEN segs[1]
  ELSE segs[1] \o <<";">> \o Join(Tail(segs))

S_good == Seg(K_secret, <<"s">>)
S_bad  == Seg(K_secret, <<"x">>)
S_sym  == Seg(K_symbol, <<"B">>)
S_buy  == Seg(K_action, <<"B", "U", "Y">>)
S_buy_now == Seg(K_action, <<"B", "u", "y", " ", "n", "o", "w">>)
S_sell == Seg(<<" ", "A", "c", "t", "i", "o", "n", " ">>, <<" ", "s", "e", "l", "l">>)
S_hold == Seg(K_action, <<"h", "o", "l", "d">>)
S_tv_a == Seg(K_tv_id, <<"a">>)
S_id_a == Seg(K_id, <<"a">>)
Amt(v) == Seg(K_amount, v)

Bodies == {
  \* valid alerts: with tv_id, with an empty tv_id and an id, and without
  \* any external id
  Join(<<S_good, S_sym, S_buy_now, Amt(<<"5", "0">>), S_tv_a>>),
  Join(<<S_good, Seg(K_tv_id, <<>>), S_id_a, S_sym, S_hold, Amt(<<"1", "e", "1">>)>>),
  Join(<<S_good, S_sym, S_sell, Amt(<<"1", "0", "0">>)>>) \o <<"\n">>,
  \* wrong and missing secret
  Join(<<S_bad, S_sym, S_buy, Amt(<<"5", "0">>), S_tv_a>>),
  Join(<<S_sym, S_buy, Amt(<<"5", "0">>)>>),
  \* empty body, missing field
  <<" ", "\n">>,
  Join(<<S_good, S_sym, S_buy, S_tv_a>>),
  \* amounts that are not numbers, out of bounds, or special values
  Join(<<S_good, S_sym, S_buy, Amt(<<"a", "b", "c">>), S_tv_a>>),
  Join(<<S_good, S_sym, S_buy, Amt(<<"0">>)>>),
  Join(<<S_good, S_sym, S_buy, Amt(<<"1", "0", "0", ".", "0", "1">>)>>),
  Join(<<S_good, S_sym, S_buy, Amt(<<"n", "a", "n">>)>>),
  Join(<<S_good, S_sym, S_buy, Amt(<<"I", "n", "f">>)>>) }

\* the values of the environment variable ALERT_SECRET the model runs with
Secrets == {<<"s">>, <<>>}

(* --------------------------- the exchange ------------------------------ *)
\* what requests.post() can come back with: an HTTP reply, or an exception
Replies == {
  [code |-> 200, text |-> "{\"id\": \"X\"}"],
  [code |-> 201, text |-> "{\"id\": \"X\"}"],
  [code |-> 400, text |-> "{\"message\": \"Insufficient funds\"}"],
  [code |-> 502, text |-> "Bad Gateway"] }
NetworkErrors == {"Timeout", "ConnectionError"}

\* r.json(): the decoded body, or a decoding error for text that is not JSON
JSONDecodeError == [type |-> "error", key |-> "", val |-> ""]
RJson(text) ==
  CASE text = "{\"id\": \"X\"}" -> [type |-> "dict", key |-> "id", val |-> "X"]
    [] text = "{\"message\": \"Insufficient funds\"}" ->
         [type |-> "dict", key |-> "message", val |-> "Insufficient funds"]
    [] OTHER -> JSONDecodeError
\* r.text
RText(text) == [type |-> "str", key |-> "", val |-> text]

\* json.dumps() of a one-entry dict or of a string
JsonDumps(v) ==
  IF v.type = "dict" THEN "{\"" \o v.key \o "\": \"" \o v.val \o "\"}"
  ELSE "\"" \o v.val \o "\""

(* ------------------------------ state ---------------------------------- *)
VARIABLES
  ALERT_SECRET,   \* the configured shared secret, fixed at process start
  clock,          \* the wall clock, in half seconds
  alerts,         \* table alerts: the sequence of rows, row i has id i
  meta,           \* table meta: the value of key last_order_ts, or NoRow
  pc,             \* where each request is in tradingview_webhook()
  raw,            \* local raw of each request
  data,           \* local data
  tv_id,          \* local tv_id
  usd_amount,     \* local usd_amount
  last_ts,        \* local last_ts
  now_ts,         \* local now_ts
  status_code,    \* local status_code
  resp,           \* local resp
  order,          \* the call of place_market_order_by_funds each request made
  rowid,          \* the value insert_alert returned to each request
  ts_writes,      \* the number of set_last_order_ts calls of each request
  response,       \* the HTTP response each request was answered with
  txt,            \* a text given to parse_alert_text on its own
  parts           \* what parse_alert_text returned for txt

vars == <<ALERT_SECRET, clock, alerts, meta, pc, raw, data, tv_id, usd_amount,
          last_ts, now_ts, status_code, resp, order, rowid, ts_writes, response,
          txt, parts>>

\* Python's None, and the other "not yet" values
None == <<"<None>">>
NoRow == <<"<no row>">>
NoResp == [type |-> "none", key |-> "", val |-> ""]
NoOrder == [product_id |-> None, side |-> "", usd_amount |-> ValueError]
NoResponse == [status |-> 0, body |-> [pending |-> TRUE]]

\* data.get("tv_id") or data.get("id") or None: the empty string is falsy
TvIdOf(d) ==
  IF Get(d, K_tv_id, <<>>) # <<>> THEN d[K_tv_id]
  ELSE IF Get(d, K_id, <<>>) # <<>> THEN d[K_id]
  ELSE None

\* the stripped text and the parsed map of every body, computed once
Stripped == [b \in Bodies |-> Strip(b)]
Parsed == [b \in Bodies |-> parse_alert_text(Strip(b))]

(* ------------------------------ database ------------------------------- *)
get_last_order_ts ==
  IF meta = NoRow THEN Fin(0, 1)
  ELSE IF ParseFloat(meta).kind = "error" THEN Fin(0, 1)
  ELSE ParseFloat(meta)

set_last_order_ts(ts) == FloatStr(ts)

\* mutant: only a placed order makes an id processed
already_processed_PlacedOnly(id) ==
  IF id = None \/ id = <<>> THEN FALSE
  ELSE \E i \in 1 .. Len(alerts) : alerts[i].tv_id = id /\ alerts[i].status = "placed"

already_processed(id) ==
  IF id = None \/ id = <<>> THEN FALSE
  ELSE \E i \in 1 .. Len(alerts) : alerts[i].tv_id = id

\* mutant: INSERT OR REPLACE keyed on the external id
insert_alert_Replace(id, rawtxt, symbol, action, amount, status, rsp) ==
  LET row == [id |-> Len(alerts) + 1, tv_id |-> id, raw |-> rawtxt,
              symbol |-> symbol, action |-> action, amount |-> amount,
              status |-> status, response |-> JsonDumps(rsp)]
      same == {i \in 1 .. Len(alerts) : alerts[i].tv_id = id}
  IN  IF same = {} THEN Append(alerts, row)
      ELSE [alerts EXCEPT ![CHOOSE i \in same : TRUE] = row]

insert_alert(id, rawtxt, symbol, action, amount, status, rsp) ==
  Append(alerts, [id |-> Len(alerts) + 1, tv_id |-> id, raw |-> rawtxt,
                  symbol |-> symbol, action |-> action, amount |-> amount,
                  status |-> status, response |-> JsonDumps(rsp)])

InitState ==
  /\ clock = 2 * StartTime
  /\ alerts = <<>>
  /\ meta = NoRow
  /\ pc = [r \in Requests |-> "idle"]
  /\ raw = [r \in Requests |-> <<>>]
  /\ data = [r \in Requests |-> <<>>]
  /\ tv_id = [r \in Requests |-> None]
  /\ usd_amount = [r \in Requests |-> ValueError]
  /\ last_ts = [r \in Requests |-> Fin(0, 1)]
  /\ now_ts = [r \in Requests |-> Fin(0, 1)]
  /\ status_code = [r \in Requests |-> 0]
  /\ resp = [r \in Requests |-> NoResp]
  /\ order = [r \in Requests |-> NoOrder]
  /\ rowid = [r \in Requests |-> 0]
  /\ ts_writes = [r \in Requests |-> 0]
  /\ response = [r \in Requests |-> NoResponse]

\* parse_alert_text has not been called on its own
NotParsed == [called |-> FALSE, value |-> <<>>]

\* the service as deployed with a secret set
Init ==
  /\ ALERT_SECRET = <<"s">>
  /\ InitState
  /\ txt = <<>>
  /\ parts = NotParsed

\* the service with any value of the environment variable ALERT_SECRET
InitAnySecret ==
  /\ ALERT_SECRET \in Secrets
  /\ InitState
  /\ txt = <<>>
  /\ parts = NotParsed

(* --------------------------- tradingview_webhook ----------------------- *)
\* jsonify(body), status
Reply(status, body) == [status |-> status, body |-> body]

\* not x, on an optional string
Falsy(x) == x = None \/ x = <<>>

Authenticated(d) == Get(d, K_secret, <<>>) = ALERT_SECRET

IsDuplicate(id) == ~ Falsy(id) /\ already_processed(id)

MissingFields(d) ==
  \/ Falsy(Get(d, K_symbol, None))
  \/ Falsy(Get(d, K_action, None))
  \/ Falsy(Get(d, K_amount, None))

\* jsonify({"error": "invalid amount"}, 400): both arguments are serialised
\* as one JSON list and the response keeps the default status
InvalidAmountReply == Reply(200, [list |-> <<[error |-> "invalid amount"], 400>>])

OutOfBounds(amount) ==
  \/ FloatLe(amount, Fin(0, 1))
  \/ FloatGt(amount, Fin(MAX_USD_PER_ORDER, 1))

\* time.time()
Now == Fin(clock, 2)

RateLimited(now, last) ==
  FloatLt(FloatSub(now, last), Fin(MIN_SECONDS_BETWEEN_ORDERS, 1))

\* mutant: buy only when the action is the word buy
SideOf_ExactBuy(action) ==
  IF Lower(action) = <<"b", "u", "y">> THEN "buy" ELSE "sell"

SideOf(action) ==
  IF StartsWith(Lower(action), <<"b", "u", "y">>) THEN "buy" ELSE "sell"

IsSuccess(code) == code \in {200, 201}

\* mutant: only 200 counts as a success when the row is written
RecordStatus_Only200(code) == IF code # 200 THEN "attempted" ELSE "placed"

RecordStatus(code) == IF code \notin {200, 201} THEN "attempted" ELSE "placed"

FinalReply(code, rsp) ==
  IF IsSuccess(code)
  THEN Reply(200, [status |-> "ok", code |-> code, response |-> rsp])
  ELSE Reply(500, [status |-> "error", code |-> code, response |-> rsp])

\* the reply of the framework to an exception that leaves the handler: the
\* same error page whatever the exception
UncaughtFault(err) == Reply(500, [fault |-> "Internal Server Error"])

Finish(r, rsp) ==
  /\ response' = [response EXCEPT ![r] = rsp]
  /\ pc' = [pc EXCEPT ![r] = "done"]

\* lines 139-151: read the body, parse, authenticate, look for a duplicate;
\* requests are numbered in the order they arrive
Accept(r, body) ==
  /\ pc[r] = "idle"
  /\ raw' = [raw EXCEPT ![r] = Stripped[body]]
  /\ IF Stripped[body] = <<>>
     THEN /\ Finish(r, Reply(400, [error |-> "empty body"]))
          /\ UNCHANGED <<data, tv_id>>
     ELSE /\ data' = [data EXCEPT ![r] = Parsed[body]]
          /\ IF ~ Authenticated(Parsed[body])
             THEN /\ Finish(r, Reply(401, [error |-> "invalid secret"]))
                  /\ UNCHANGED tv_id
             ELSE /\ tv_id' = [tv_id EXCEPT ![r] = TvIdOf(Parsed[body])]
                  /\ IF IsDuplicate(TvIdOf(Parsed[body]))
                     THEN Finish(r, Reply(409, [error |-> "duplicate alert",
                                                tv_id |-> TvIdOf(Parsed[body])]))
                     ELSE /\ pc' = [pc EXCEPT ![r] = "validate"]
                          /\ UNCHANGED response
  /\ UNCHANGED <<ALERT_SECRET, clock, alerts, meta, usd_amount, last_ts, now_ts,
                 status_code, resp, order, rowid, ts_writes,
                 txt, parts>>

\* workers handle requests concurrently: a request arrives while earlier ones
\* are in flight; at most MaxReq requests arrive
Receive(r, body) ==
  /\ r <= MaxReq
  /\ \A q \in Requests : q < r => pc[q] # "idle"
  /\ Accept(r, body)

\* one worker handles the requests one after another: a request arrives when
\* every earlier one has been answered
ReceiveSerial(r, body) ==
  /\ \A q \in Requests : q < r => pc[q] = "done"
  /\ Accept(r, body)

\* lines 153-170: required fields, amount, bounds, then read the checkpoint
Validate(r) ==
  /\ pc[r] = "validate"
  /\ IF MissingFields(data[r])
     THEN /\ Finish(r, Reply(400, [error |-> "missing fields", received |-> data[r]]))
          /\ UNCHANGED <<usd_amount, last_ts>>
     ELSE LET amount == ParseFloat(data[r][K_amount])
          IN  IF amount = ValueError
              THEN /\ Finish(r, InvalidAmountReply)
                   /\ UNCHANGED <<usd_amount, last_ts>>
              ELSE /\ usd_amount' = [usd_amount EXCEPT ![r] = amount]
                   /\ IF OutOfBounds(amount)
                      THEN /\ Finish(r, Reply(400, [error |-> "amount out of bounds",
                                                    max_allowed |-> MAX_USD_PER_ORDER]))
                           /\ UNCHANGED last_ts
                      ELSE /\ last_ts' = [last_ts EXCEPT ![r] = get_last_order_ts]
                           /\ pc' = [pc EXCEPT ![r] = "ratelimit"]
                           /\ UNCHANGED response
  /\ UNCHANGED <<ALERT_SECRET, clock, alerts, meta, raw, data, tv_id, now_ts,
                 status_code, resp, order, rowid, ts_writes,
                 txt, parts>>

\* mutant: the checkpoint is advanced when the clock is read, before the
\* interval is checked
RateLimit_WritesFirst(r) ==
  /\ pc[r] = "ratelimit"
  /\ now_ts' = [now_ts EXCEPT ![r] = Now]
  /\ meta' = set_last_order_ts(Now)
  /\ IF RateLimited(Now, last_ts[r])
     THEN /\ Finish(r, Reply(429, [error |-> "rate limit",
                                   min_seconds |-> MIN_SECONDS_BETWEEN_ORDERS]))
          /\ UNCHANGED order
     ELSE /\ order' = [order EXCEPT ![r] =
                         [product_id |-> data[r][K_symbol],
                          side |-> SideOf(data[r][K_action]),
                          usd_amount |-> usd_amount[r]]]
          /\ pc' = [pc EXCEPT ![r] = "exchange"]
          /\ UNCHANGED response
  /\ UNCHANGED <<ALERT_SECRET, clock, alerts, raw, data, tv_id, usd_amount,
                 last_ts, status_code, resp, rowid, ts_writes,
                 txt, parts>>

\* mutant: a rate-limited alert is recorded, with status "rejected"
RateLimit_RecordsRejected(r) ==
  /\ pc[r] = "ratelimit"
  /\ now_ts' = [now_ts EXCEPT ![r] = Now]
  /\ IF RateLimited(Now, last_ts[r])
     THEN /\ Finish(r, Reply(429, [error |-> "rate limit",
                                   min_seconds |-> MIN_SECONDS_BETWEEN_ORDERS]))
          /\ alerts' = insert_alert(tv_id[r], raw[r], data[r][K_symbol],
                                    data[r][K_action], usd_amount[r],
                                    "rejected", NoResp)
          /\ UNCHANGED order
     ELSE /\ order' = [order EXCEPT ![r] =
                         [product_id |-> data[r][K_symbol],
                          side |-> SideOf(data[r][K_action]),
                          usd_amount |-> usd_amount[r]]]
          /\ pc' = [pc EXCEPT ![r] = "exchange"]
          /\ UNCHANGED <<response, alerts>>
  /\ UNCHANGED <<ALERT_SECRET, clock, meta, raw, data, tv_id, usd_amount, last_ts,
                 status_code, resp, rowid, ts_writes,
                 txt, parts>>

\* lines 171-177: read the clock, check the interval, send the order
RateLimit(r) ==
  /\ pc[r] = "ratelimit"
  /\ now_ts' = [now_ts EXCEPT ![r] = Now]
  /\ IF RateLimited(Now, last_ts[r])
     THEN /\ Finish(r, Reply(429, [error |-> "rate limit",
                                   min_seconds |-> MIN_SECONDS_BETWEEN_ORDERS]))
          /\ UNCHANGED order
     ELSE /\ order' = [order EXCEPT ![r] =
                         [product_id |-> data[r][K_symbol],
                          side |-> SideOf(data[r][K_action]),
                          usd_amount |-> usd_amount[r]]]
          /\ pc' = [pc EXCEPT ![r] = "exchange"]
          /\ UNCHANGED response
  /\ UNCHANGED <<ALERT_SECRET, clock, alerts, meta, raw, data, tv_id, usd_amount, last_ts,
                 status_code, resp, rowid, ts_writes,
                 txt, parts>>

\* lines 131-135: the exchange answers; the body is decoded as JSON when
\* possible, else kept as text
ExchangeReplies(r, reply) ==
  /\ pc[r] = "exchange"
  /\ status_code' = [status_code EXCEPT ![r] = reply.code]
  /\ resp' = [resp EXCEPT ![r] =
                IF RJson(reply.text) = JSONDecodeError THEN RText(reply.text)
                ELSE RJson(reply.text)]
  /\ pc' = [pc EXCEPT ![r] = "insert"]
  /\ UNCHANGED <<ALERT_SECRET, clock, alerts, meta, raw, data, tv_id, usd_amount, last_ts, now_ts,
                 order, rowid, ts_writes, response,
                 txt, parts>>

\* line 131: requests.post() raises; nothing in place_market_order_by_funds
\* or in the handler catches it
ExchangeFails(r, err) ==
  /\ pc[r] = "exchange"
  /\ Finish(r, UncaughtFault(err))
  /\ UNCHANGED <<ALERT_SECRET, clock, alerts, meta, raw, data, tv_id, usd_amount, last_ts, now_ts,
                 status_code, resp, order, rowid, ts_writes,
                 txt, parts>>

\* line 180
InsertAlert(r) ==
  /\ pc[r] = "insert"
  /\ alerts' = insert_alert(tv_id[r], raw[r], data[r][K_symbol],
                            data[r][K_action], usd_amount[r],
                            RecordStatus(status_code[r]), resp[r])
  /\ rowid' = [rowid EXCEPT ![r] = Len(alerts) + 1]
  /\ pc' = [pc EXCEPT ![r] = "set_ts"]
  /\ UNCHANGED <<ALERT_SECRET, clock, meta, raw, data, tv_id, usd_amount, last_ts, now_ts,
                 status_code, resp, order, ts_writes, response,
                 txt, parts>>

\* lines 183-188
SetLastOrderTs(r) ==
  /\ pc[r] = "set_ts"
  /\ meta' = set_last_order_ts(now_ts[r])
  /\ ts_writes' = [ts_writes EXCEPT ![r] = @ + 1]
  /\ Finish(r, FinalReply(status_code[r], resp[r]))
  /\ UNCHANGED <<ALERT_SECRET, clock, alerts, raw, data, tv_id, usd_amount, last_ts, now_ts,
                 status_code, resp, order, rowid,
                 txt, parts>>

\* the wall clock advances
Tick ==
  /\ clock < 2 * StartTime + MaxTicks
  /\ clock' = clock + 1
  /\ UNCHANGED <<ALERT_SECRET, alerts, meta, pc, raw, data, tv_id, usd_amount, last_ts, now_ts,
                 status_code, resp, order, rowid, ts_writes, response,
                 txt, parts>>

Next ==
  \/ \E r \in Requests, body \in Bodies : Receive(r, body)
  \/ \E r \in Requests : Validate(r)
  \/ \E r \in Requests : RateLimit(r)
  \/ \E r \in Requests, reply \in Replies : ExchangeReplies(r, reply)
  \/ \E r \in Requests, err \in NetworkErrors : ExchangeFails(r, err)
  \/ \E r \in Requests : InsertAlert(r)
  \/ \E r \in Requests : SetLastOrderTs(r)
  \/ Tick

Spec == Init /\ [][Next]_vars

SpecAnySecret == InitAnySecret /\ [][Next]_vars

NextSerial ==
  \/ \E r \in Requests, body \in Bodies : ReceiveSerial(r, body)
  \/ \E r \in Requests : Validate(r)
  \/ \E r \in Requests : RateLimit(r)
  \/ \E r \in Requests, reply \in Replies : ExchangeReplies(r, reply)
  \/ \E r \in Requests, err \in NetworkErrors : ExchangeFails(r, err)
  \/ \E r \in Requests : InsertAlert(r)
  \/ \E r \in Requests : SetLastOrderTs(r)
  \/ Tick

SpecSerial == Init /\ [][NextSerial]_vars

(* ------------------------ parse_alert_text alone ----------------------- *)
\* the characters of the texts: the two separators, a blank, and a letter
\* in upper case
ParseAlphabet == {";", ":", " ", "A"}
RECURSIVE TextsOfLen(_)
TextsOfLen(n) ==
  IF n = 0 THEN {<<>>}
  ELSE {t \o <<c>> : t \in TextsOfLen(n - 1), c \in ParseAlphabet}
Texts == UNION {TextsOfLen(n) : n \in 0 .. MaxLen}

InitParse ==
  /\ ALERT_SECRET = <<"s">>
  /\ InitState
  /\ txt \in Texts
  /\ parts = NotParsed

\* lines 93-102, called on txt
Parse ==
  /\ parts = NotParsed
  /\ parts' = [called |-> TRUE, value |-> parse_alert_text(txt)]
  /\ UNCHANGED <<ALERT_SECRET, clock, alerts, meta, pc, raw, data, tv_id,
                 usd_amount, last_ts, now_ts, status_code, resp, order, rowid,
                 ts_writes, response, txt>>

NextParse == Parse

SpecParse == InitParse /\ [][NextParse]_vars

TypeOK ==
  /\ clock \in 2 * StartTime .. 2 * StartTime + MaxTicks
  /\ \A r \in Requests :
       pc[r] \in {"idle", "validate", "ratelimit", "exchange", "insert", "set_ts", "done"}

(* ------------------------------ claims --------------------------------- *)
Done(r) == pc[r] = "done"
\* no request is in flight
Quiescent == \A r \in Requests : pc[r] \in {"idle", "done"}
\* the request called place_market_order_by_funds
Ordered(r) == order[r] # NoOrder
\* the request was answered by one of the checks of lines 139-173
Rejected(r) ==
  /\ Done(r)
  /\ \/ "error" \in DOMAIN response[r].body
     \/ "list" \in DOMAIN response[r].body

\* C1: for every non-empty external id, at most one row of alerts carries it,
\* at most one order was sent for it, and every finished delivery with that
\* id other than the one that sent the order was answered 409.
C1_AtMostOncePerId ==
  /\ \A i, j \in 1 .. Len(alerts) :
       i # j /\ alerts[i].tv_id # None => alerts[i].tv_id # alerts[j].tv_id
  /\ \A r1, r2 \in Requests :
       r1 # r2 /\ tv_id[r1] # None /\ tv_id[r1] = tv_id[r2] /\ Ordered(r1)
         => /\ ~ Ordered(r2)
            /\ Done(r2) => response[r2].status = 409

\* C2: two alerts without an external id whose clock readings are less than
\* MIN_SECONDS_BETWEEN_ORDERS apart do not both reach the exchange.
C2_OrdersSpaced ==
  \A r1, r2 \in Requests :
    r1 # r2 /\ Ordered(r1) /\ Ordered(r2) /\ tv_id[r1] = None /\ tv_id[r2] = None
    /\ FloatLe(now_ts[r1], now_ts[r2])
      => ~ RateLimited(now_ts[r2], now_ts[r1])

\* C3: whatever the configured secret, a request whose parsed map has no
\* secret or another secret is answered 401 and sends no order, inserts no
\* row and writes no checkpoint.
C3_BadSecretRejected ==
  \A r \in Requests :
    /\ pc[r] # "idle"
    /\ raw[r] # <<>>
    /\ K_secret \notin DOMAIN data[r] \/ data[r][K_secret] # ALERT_SECRET
    => /\ response[r] = Reply(401, [error |-> "invalid secret"])
       /\ ~ Ordered(r) /\ rowid[r] = 0 /\ ts_writes[r] = 0

\* C4: every finished request that sent an order inserted one row and wrote
\* the checkpoint once, and when no request is in flight there are as many
\* rows as orders sent.
C4_OneRecordPerOrder ==
  /\ \A r \in Requests :
       Done(r) /\ Ordered(r) => rowid[r] # 0 /\ ts_writes[r] = 1
  /\ Quiescent => Len(alerts) = Cardinality({r \in Requests : Ordered(r)})

\* C5: every step of a request up to and including its rejection by one of
\* the checks of steps 1-8 leaves the rows of alerts and the checkpoint as
\* they were, and a rejected request has sent no order, inserted no row and
\* written no checkpoint.
C5_RejectionWritesNothing ==
  [][\A r \in Requests :
       /\ pc'[r] # pc[r]
       /\ pc'[r] \in {"validate", "ratelimit"} \/ Rejected(r)'
       => /\ alerts' = alerts /\ meta' = meta
          /\ ~ Ordered(r)' /\ rowid'[r] = 0 /\ ts_writes'[r] = 0]_vars

\* a request was rejected by the rate limit while alerts and the checkpoint
\* hold an earlier order
C5_Witness ==
  /\ Len(alerts) > 0 /\ meta # NoRow
  /\ \E r \in Requests : Rejected(r) /\ response[r].status = 429

\* C6: an authenticated, non-duplicate request with symbol, action and
\* amount non-empty whose amount is not a number is answered 400
\* {error: "invalid amount"}.
C6_InvalidAmount400 ==
  \A r \in Requests :
    /\ Done(r) /\ raw[r] # <<>> /\ Authenticated(data[r])
    /\ response[r].status # 409
    /\ ~ MissingFields(data[r])
    /\ ParseFloat(data[r][K_amount]) = ValueError
    => response[r] = Reply(400, [error |-> "invalid amount"])

\* C7: an order is sent only for a finite amount with
\* 0 < amount <= MAX_USD_PER_ORDER; amount 0 and amounts above the maximum
\* are answered 400 {error: "amount out of bounds"}; the maximum is accepted.
C7_AmountBounds ==
  \A r \in Requests :
    /\ Ordered(r) =>
         /\ IsFinite(order[r].usd_amount)
         /\ FloatLt(Fin(0, 1), order[r].usd_amount)
         /\ FloatLe(order[r].usd_amount, Fin(MAX_USD_PER_ORDER, 1))
    /\ Done(r) /\ usd_amount[r] # ValueError =>
         /\ \/ FloatEq(usd_amount[r], Fin(0, 1))
            \/ FloatGt(usd_amount[r], Fin(MAX_USD_PER_ORDER, 1))
            => /\ response[r].status = 400
               /\ "error" \in DOMAIN response[r].body
               /\ response[r].body.error = "amount out of bounds"
         /\ FloatEq(usd_amount[r], Fin(MAX_USD_PER_ORDER, 1))
            => response[r].status # 400

\* json.loads() of a stored response
RespValues ==
  {RJson(x.text) : x \in Replies} \cup {RText(x.text) : x \in Replies}
JsonLoads(text) == CHOOSE v \in RespValues \ {JSONDecodeError} : JsonDumps(v) = text

\* C8: for every finished request that got a gateway result (code, body), the
\* row it inserted has status "placed" if code is 200 or 201 and "attempted"
\* otherwise; the response is 200 {status: "ok", code, response: body} if the
\* row is "placed", else 500 {status: "error", code, response: body}; the
\* stored response decodes to the body that is returned.
C8_OutcomeConsistent ==
  \A r \in Requests :
    Done(r) /\ status_code[r] # 0 =>
      /\ rowid[r] \in 1 .. Len(alerts)
      /\ LET row == alerts[rowid[r]]
         IN  /\ row.status = (IF status_code[r] \in {200, 201} THEN "placed" ELSE "attempted")
             /\ response[r] =
                  (IF row.status = "placed"
                   THEN Reply(200, [status |-> "ok", code |-> status_code[r],
                                    response |-> resp[r]])
                   ELSE Reply(500, [status |-> "error", code |-> status_code[r],
                                    response |-> resp[r]]))
             /\ JsonLoads(row.response) = response[r].body.response

\* one request was answered 200 for a 201 of the exchange and another was
\* answered 500 for a reply that is not JSON
C8_Witness ==
  /\ \E r \in Requests : Done(r) /\ status_code[r] = 201 /\ response[r].status = 200
  /\ \E r \in Requests : Done(r) /\ status_code[r] = 502 /\ response[r].status = 500

\* C9: when no request is in flight the checkpoint is the largest now_ts of
\* the requests that sent an order, and 0 if there is none.
C9_CheckpointIsLatest ==
  Quiescent =>
    /\ \A r \in Requests : Ordered(r) => FloatLe(now_ts[r], get_last_order_ts)
    /\ \/ \E r \in Requests : Ordered(r) /\ FloatEq(now_ts[r], get_last_order_ts)
       \/ /\ \A r \in Requests : ~ Ordered(r)
          /\ FloatEq(get_last_order_ts, Fin(0, 1))

\* C10: every request that sent an order gets a (status code, body) pair from
\* place_market_order_by_funds and ends in one of the handler's own responses.
C10_NeverRaises ==
  \A r \in Requests :
    Done(r) /\ Ordered(r) =>
      /\ status_code[r] # 0
      /\ "fault" \notin DOMAIN response[r].body

\* the reference parser: the segments are the stretches between two ';',
\* taken by position; a key maps to the value of the last segment that
\* assigns it
RefBounds(t) == {0, Len(t) + 1} \cup {i \in 1 .. Len(t) : t[i] = ";"}
RefStarts(t) == RefBounds(t) \ {Len(t) + 1}
RefSeg(t, b) ==
  LET e == CHOOSE x \in RefBounds(t) :
             x > b /\ \A y \in RefBounds(t) : y > b => x <= y
  IN  SubSeq(t, b + 1, e - 1)
RefHasColon(p) == \E i \in 1 .. Len(p) : p[i] = ":"
RefColon(p) == CHOOSE i \in 1 .. Len(p) : p[i] = ":" /\ \A j \in 1 .. i - 1 : p[j] # ":"
RefKey(p) == Lower(Strip(SubSeq(p, 1, RefColon(p) - 1)))
RefVal(p) == Strip(SubSeq(p, RefColon(p) + 1, Len(p)))
RefAssigns(t) == {b \in RefStarts(t) : RefHasColon(RefSeg(t, b))}
RefParse(t) ==
  [k \in {RefKey(RefSeg(t, b)) : b \in RefAssigns(t)} |->
     LET last == CHOOSE b \in RefAssigns(t) :
                   /\ RefKey(RefSeg(t, b)) = k
                   /\ \A c \in RefAssigns(t) : RefKey(RefSeg(t, c)) = k => c <= b
     IN  RefVal(RefSeg(t, last))]

\* C11: for every text, parse_alert_text returns the map of the reference
\* parser: split on ';', segments without ':' dropped, each other segment
\* split on its first ':', key trimmed and lower-cased, value trimmed, the
\* last occurrence of a key kept.
C11_ParseIsReference ==
  parts.called =>
    /\ DOMAIN parts.value = DOMAIN RefParse(txt)
    /\ \A k \in DOMAIN parts.value : parts.value[k] = RefParse(txt)[k]

\* a text was parsed in which a key in upper case occurs twice, the second
\* time with a value that holds a ':'
C11_Witness ==
  /\ parts.called
  /\ txt = <<"A", ":", ";", "A", ":", ":">>
  /\ DOMAIN parts.value = {<<"a">>}
  /\ parts.value[<<"a">>] = <<":">>

\* C12: every step leaves the rows of alerts as they are or appends one row,
\* inserted by a request that had inserted none, whose id is larger than
\* the id of every row there was.
C12_AppendOnly ==
  [][\/ alerts' = alerts
     \/ /\ Len(alerts') = Len(alerts) + 1
        /\ \A i \in 1 .. Len(alerts) : alerts'[i] = alerts[i]
        /\ \A i \in 1 .. Len(alerts) : alerts'[Len(alerts')].id > alerts[i].id
        /\ \E r \in Requests :
             /\ rowid[r] = 0 /\ rowid'[r] = alerts'[Len(alerts')].id
             /\ \A q \in Requests \ {r} : rowid'[q] = rowid[q]]_vars

\* two requests have each inserted a row
C12_Witness ==
  /\ Len(alerts) = 2
  /\ \E r1, r2 \in Requests : rowid[r1] = 1 /\ rowid[r2] = 2

\* the answer the first failing check of a request gives, as a step of the
\* request: Answered(r, code, err) is a step that ends r with that error
Answered(r, code, err) ==
  /\ pc'[r] = "done"
  /\ response'[r].status = code
  /\ "error" \in DOMAIN response'[r].body
  /\ response'[r].body.error = err

\* C13: every request is answered by the first check that fails, in the
\* order empty body (400), secret (401), duplicate id (409), missing fields
\* (400), invalid amount (400), bounds (400), rate limit (429); a request
\* that passes a check goes on to the next one.
C13_FirstFailingCheck ==
  [][\A r \in Requests :
       /\ pc[r] = "idle" /\ pc'[r] # "idle" =>
            IF raw'[r] = <<>> THEN Answered(r, 400, "empty body")
            ELSE IF ~ Authenticated(data'[r]) THEN Answered(r, 401, "invalid secret")
            ELSE IF IsDuplicate(TvIdOf(data'[r])) THEN Answered(r, 409, "duplicate alert")
            ELSE pc'[r] = "validate"
       /\ pc[r] = "validate" /\ pc'[r] # "validate" =>
            IF MissingFields(data[r]) THEN Answered(r, 400, "missing fields")
            ELSE IF ParseFloat(data[r][K_amount]) = ValueError
                 THEN Answered(r, 400, "invalid amount")
            ELSE IF OutOfBounds(ParseFloat(data[r][K_amount]))
                 THEN Answered(r, 400, "amount out of bounds")
            ELSE pc'[r] = "ratelimit"
       /\ pc[r] = "ratelimit" /\ pc'[r] # "ratelimit" =>
            IF RateLimited(now_ts'[r], last_ts[r]) THEN Answered(r, 429, "rate limit")
            ELSE pc'[r] = "exchange"]_vars

\* the request passed every check before the rate limit and read the clock
ReadClock(r) == now_ts[r] # Fin(0, 1)
\* the requests before r that attempted an order and have finished
AttemptsBefore(r) == {q \in Requests : q < r /\ Ordered(q) /\ Done(q)}

\* C14: with requests handled one after another, a request that read the
\* clock less than MIN_SECONDS_BETWEEN_ORDERS after the clock reading of an
\* earlier request that attempted an order is answered 429 and sends no
\* order; one that read it at least that long after every earlier attempt is
\* not answered 429; the last timestamp is 0 while no checkpoint is written.
C14_SequentialRateLimit ==
  \A r \in Requests :
    ReadClock(r) /\ pc[r] # "ratelimit" =>
      /\ (\E q \in AttemptsBefore(r) :
            FloatLt(FloatSub(now_ts[r], now_ts[q]), Fin(MIN_SECONDS_BETWEEN_ORDERS, 1)))
           => response[r].status = 429 /\ ~ Ordered(r)
      /\ (\A q \in AttemptsBefore(r) :
            ~ FloatLt(FloatSub(now_ts[r], now_ts[q]), Fin(MIN_SECONDS_BETWEEN_ORDERS, 1)))
           => response[r].status # 429
      /\ (\A q \in Requests : q < r => ts_writes[q] = 0) => last_ts[r] = Fin(0, 1)

\* the external id of an alert: tv_id, or id when tv_id is absent or empty
ExternalId(d) ==
  IF Get(d, K_tv_id, <<>>) # <<>> THEN d[K_tv_id]
  ELSE IF Get(d, K_id, <<>>) # <<>> THEN d[K_id]
  ELSE None
\* a row of alerts carries the id
Recorded(id) == \E i \in 1 .. Len(alerts) : alerts[i].tv_id = id

\* C15: a delivery that starts when a row with its external id exists and
\* that carries the secret is answered 409 with error "duplicate alert" and
\* the id in that step, which sends no order and writes neither a row nor a
\* checkpoint; it takes no step afterwards.
C15_RecordedIdRejected ==
  [][\A r \in Requests :
       /\ ( /\ pc[r] = "idle" /\ pc'[r] # "idle"
            /\ raw'[r] # <<>>
            /\ Authenticated(data'[r])
            /\ ExternalId(data'[r]) # None
            /\ Recorded(ExternalId(data'[r])) )
          => /\ pc'[r] = "done"
             /\ response'[r] = [status |-> 409,
                                body |-> [error |-> "duplicate alert",
                                          tv_id |-> ExternalId(data'[r])]]
             /\ alerts' = alerts /\ meta' = meta
             /\ order'[r] = NoOrder /\ rowid'[r] = 0 /\ ts_writes'[r] = 0
       /\ pc[r] = "done" /\ response[r].status = 409
          => /\ pc'[r] = "done" /\ response'[r] = response[r]
             /\ order'[r] = NoOrder /\ rowid'[r] = 0 /\ ts_writes'[r] = 0]_vars

\* a retry, carrying the id in the field id, of an alert whose order the
\* exchange refused was answered 409
C15_Witness ==
  \E r \in Requests :
    /\ Done(r) /\ response[r].status = 409
    /\ Get(data[r], K_tv_id, None) = <<>>
    /\ ~ Ordered(r)
    /\ \E i \in 1 .. Len(alerts) :
         alerts[i].tv_id = tv_id[r] /\ alerts[i].status = "attempted"

\* the action begins with the letters b, u, y in either case
BeginsWithBuy(action) ==
  /\ Len(action) >= 3
  /\ action[1] \in {"b", "B"}
  /\ action[2] \in {"u", "U"}
  /\ action[3] \in {"y", "Y"}

\* C16: every order sent carries the side buy or sell, and buy exactly when
\* the action of the alert begins with "buy" in any mix of cases.
C16_SideNormalized ==
  \A r \in Requests :
    Ordered(r) =>
      /\ order[r].side \in {"buy", "sell"}
      /\ order[r].side = "buy" <=> BeginsWithBuy(data[r][K_action])

\* an order for "Buy now" went out as buy and one for "hold" as sell
C16_Witness ==
  \E r1, r2 \in Requests :
    /\ Ordered(r1) /\ Ordered(r2)
    /\ data[r1][K_action] = <<"B", "u", "y", " ", "n", "o", "w">>
    /\ order[r1].side = "buy"
    /\ data[r2][K_action] = <<"h", "o", "l", "d">>
    /\ order[r2].side = "sell"

\* the alert carries the secret and neither a non-empty tv_id nor a
\* non-empty id
NoExternalId(r) ==
  /\ pc[r] # "idle" /\ raw[r] # <<>>
  /\ Authenticated(data[r])
  /\ Get(data[r], K_tv_id, <<>>) = <<>>
  /\ Get(data[r], K_id, <<>>) = <<>>

\* C17: an alert with the secret and without an external id is never
\* answered 409, and when it has sent its order and finished, a row of its
\* own with a null external id is in alerts.
C17_NullIdNeverDuplicate ==
  \A r \in Requests :
    NoExternalId(r) =>
      /\ response[r].status # 409
      /\ Ordered(r) /\ Done(r) =>
           /\ rowid[r] \in 1 .. Len(alerts)
           /\ alerts[rowid[r]].tv_id = None
           /\ alerts[rowid[r]].raw = raw[r]
           /\ \A q \in Requests \ {r} : rowid[q] # rowid[r]

\* the alert has its three fields and an amount in (0, MAX_USD_PER_ORDER]
ValidAlert(d) ==
  /\ ~ MissingFields(d)
  /\ ParseFloat(d[K_amount]).kind = "fin"
  /\ ~ OutOfBounds(ParseFloat(d[K_amount]))
\* every earlier delivery that carried the id ended before order placement
OnlyRejectedBefore(r, id) ==
  \A q \in Requests :
    q < r /\ raw[q] # <<>> /\ ExternalId(data[q]) = id => Done(q) /\ ~ Ordered(q)
\* r read the clock at least MIN_SECONDS_BETWEEN_ORDERS after every earlier
\* order attempt
OutsideWindow(r) ==
  \A q \in Requests :
    q < r /\ Ordered(q) =>
      ~ FloatLt(FloatSub(now_ts[r], now_ts[q]), Fin(MIN_SECONDS_BETWEEN_ORDERS, 1))

\* C18: with requests handled one after another, when every earlier
\* delivery carrying an id was rejected before order placement, no earlier
\* request left a row with that id, and a delivery with the secret and that
\* id is not answered 409; if it is valid and past its checks outside the
\* rate-limit window, it has sent its order.
C18_IdConsumedOnlyByAttempt ==
  \A r \in Requests :
    ( /\ pc[r] # "idle" /\ raw[r] # <<>>
      /\ Authenticated(data[r])
      /\ ExternalId(data[r]) # None
      /\ OnlyRejectedBefore(r, ExternalId(data[r])) )
    => /\ \A q \in Requests :
            q < r /\ rowid[q] # 0 => alerts[rowid[q]].tv_id # ExternalId(data[r])
       /\ response[r].status # 409
       /\ ( /\ ValidAlert(data[r])
            /\ pc[r] \notin {"validate", "ratelimit"}
            /\ OutsideWindow(r) ) => Ordered(r)

\* an alert with id a was answered 429, and the next delivery with id a,
\* outside the window, sent its order
C18_Witness ==
  \E q, r \in Requests :
    /\ q < r
    /\ Done(q) /\ response[q].status = 429 /\ tv_id[q] = <<"a">>
    /\ tv_id[r] = <<"a">> /\ Ordered(r) /\ ValidAlert(data[r])
    /\ OnlyRejectedBefore(r, <<"a">>)

====
